---- MODULE Spec2Model ----
(***************************************************************************)
(* Model of gideon-tax-core: the year rules and their standard-deduction   *)
(* algorithm (rules/mod.rs, rules/y2025.rs), the Filer box model           *)
(* (types/filer.rs), the cents-integer currency type (types/usd.rs) and    *)
(* the spine pipeline compute_spine (spine.rs), with the decimal currency  *)
(* type of the second lineage (usd_amount.rs).                             *)
(*                                                                         *)
(* Amounts are Usd values, i.e. integer counts of cents.  usd.rs documents *)
(* that overflow is not checked because no return approaches i64::MAX      *)
(* cents; the model keeps every amount far inside that range.              *)
(***************************************************************************)
EXTENDS Integers, FiniteSets, Sequences, TLC

VARIABLES
    rules,          \* the rule-set value shared by every call (&dyn TaxYearRules)
    params,         \* the DeductionParams of the latest standard_deduction call
    deduction,      \* the Usd that call returned
    lastOp,         \* which caller operation produced params/deduction
    prevDeduction,  \* the result of the call before a box was added
    collab,         \* which bracket table us_tax_brackets::compute_tax consults
    inv,            \* the compute_spine invocation: position, locals, result
    invs,           \* concurrent compute_spine invocations on the shared rules
    usd,            \* a Usd value, the operation that produced it, its rendering
    amount          \* a UsdAmount value and the operation that produced it

vars ==
    <<rules, params, deduction, lastOp, prevDeduction, collab, inv, invs, usd,
      amount>>

otherVars == <<invs, usd, amount>>

dedVars == <<params, deduction, lastOp, prevDeduction>>

(***************************************************************************)
(* types/usd.rs                                                            *)
(***************************************************************************)
ZERO == 0

from_dollars(dollars) == dollars * 100

from_cents(c) == c

cents(u) == u

\* Ord::max / Ord::min on the derived ordering of Usd(i64)
UsdMax(a, b) == IF a >= b THEN a ELSE b

UsdMin(a, b) == IF a <= b THEN a ELSE b

unsigned_abs(x) == IF x < 0 THEN 0 - x ELSE x

\* variant: a 50-cent remainder is dropped instead of rounded up
irs_round_tie_down(u) ==
    LET abs == unsigned_abs(u)
        rem == abs % 100
        rounded == IF rem > 50 THEN abs + (100 - rem) ELSE abs - rem
    IN  IF u < 0 THEN 0 - rounded ELSE rounded

\* variant: the comparison with 50 is turned around
irs_round_flipped(u) ==
    LET abs == unsigned_abs(u)
        rem == abs % 100
        rounded == IF rem <= 50 THEN abs + (100 - rem) ELSE abs - rem
    IN  IF u < 0 THEN 0 - rounded ELSE rounded

irs_round(u) ==
    LET abs == unsigned_abs(u)
        rem == abs % 100
        rounded == IF rem >= 50 THEN abs + (100 - rem) ELSE abs - rem
    IN  IF u < 0 THEN 0 - rounded ELSE rounded

\* variant: the `%` operator of i64, whose remainder takes the dividend's sign
rem_truncated(a, n) == IF a < 0 THEN 0 - ((0 - a) % n) ELSE a % n

\* i64::rem_euclid: the remainder is never negative
rem_euclid(a, n) == a % n

\* variant: the amount advances to the next dollar even without a remainder
round_up_always_advances(u) ==
    LET rem == rem_euclid(u, 100)
    IN  u + (100 - rem)

round_up(u) ==
    LET rem == rem_euclid(u, 100)
    IN  IF rem = 0 THEN u ELSE u + (100 - rem)

round_down(u) ==
    LET rem == rem_euclid(u, 100)
    IN  u - rem

\* impl Display for Usd; text is a sequence of characters
DigitChars == <<"0", "1", "2", "3", "4", "5", "6", "7", "8", "9">>

Digit(d) == DigitChars[d + 1]

\* "{}" of an unsigned integer
RECURSIVE Decimal(_)
Decimal(n) == IF n < 10 THEN <<Digit(n)>> ELSE Decimal(n \div 10) \o <<Digit(n % 10)>>

\* variant: "{}" in place of "{:02}"
Pad2_unpadded(n) == Decimal(n)

\* "{:02}" of an unsigned integer
Pad2(n) == IF n < 10 THEN <<"0">> \o Decimal(n) ELSE Decimal(n)

Display(u) ==
    LET sign == IF u < 0 THEN <<"-">> ELSE <<>>
        abs == unsigned_abs(u)
    IN  sign \o <<"$">> \o Decimal(abs \div 100) \o <<".">> \o Pad2(abs % 100)

(***************************************************************************)
(* FilingStatus and Filer                                                  *)
(***************************************************************************)
FilingStatus == {"Single", "MarriedFilingJointly", "MarriedFilingSeparately",
                 "HeadOfHousehold", "QualifyingSurvivingSpouse"}

Filer == [is_65_or_older : BOOLEAN, is_blind : BOOLEAN]

FilerDefault == [is_65_or_older |-> FALSE, is_blind |-> FALSE]

BoolToInt(b) == IF b THEN 1 ELSE 0

\* variant: the two flags combined with xor instead of added
checked_boxes_xor(f) == BoolToInt(f.is_65_or_older # f.is_blind)

checked_boxes(f) == BoolToInt(f.is_65_or_older) + BoolToInt(f.is_blind)

\* Option<Filer>
None == [some |-> FALSE, filer |-> FilerDefault]

Some(f) == [some |-> TRUE, filer |-> f]

OptionFiler == {None} \cup {Some(f) : f \in Filer}

(***************************************************************************)
(* Rule sets: implementations of the TaxYearRules trait.  Rules2025 is the *)
(* one the repository ships; the others are further implementations of the *)
(* trait, used where a statement ranges over every rule set.               *)
(***************************************************************************)
Y2024 == 2024

Y2025 == 2025

TaxYear == {Y2024, Y2025}

Rules2025 ==
    [year |-> Y2025,
     single_mfs_typical_standard_deduction |-> from_dollars(15750),
     mfj_qss_typical_standard_deduction |-> from_dollars(31500),
     hoh_typical_standard_deduction |-> from_dollars(23625),
     additional_deduction_unmarried |-> from_dollars(2000),
     additional_deduction_married |-> from_dollars(1600),
     dependent_earned_income_addition |-> from_dollars(450),
     dependent_minimum_deduction |-> from_dollars(1350)]

\* a second year's record with its own published figures
Rules2024 ==
    [year |-> Y2024,
     single_mfs_typical_standard_deduction |-> from_dollars(14600),
     mfj_qss_typical_standard_deduction |-> from_dollars(29200),
     hoh_typical_standard_deduction |-> from_dollars(21900),
     additional_deduction_unmarried |-> from_dollars(1950),
     additional_deduction_married |-> from_dollars(1550),
     dependent_earned_income_addition |-> from_dollars(450),
     dependent_minimum_deduction |-> from_dollars(1300)]

\* an implementation whose dependent minimum exceeds its single/MFS base
RulesHighFloor ==
    [year |-> Y2025,
     single_mfs_typical_standard_deduction |-> from_dollars(1000),
     mfj_qss_typical_standard_deduction |-> from_dollars(2000),
     hoh_typical_standard_deduction |-> from_dollars(1500),
     additional_deduction_unmarried |-> from_dollars(200),
     additional_deduction_married |-> from_dollars(100),
     dependent_earned_income_addition |-> from_dollars(450),
     dependent_minimum_deduction |-> from_dollars(1350)]

RuleSets == {Rules2025, Rules2024, RulesHighFloor}

year(r) == r.year

single_mfs_typical_standard_deduction(r) == r.single_mfs_typical_standard_deduction

mfj_qss_typical_standard_deduction(r) == r.mfj_qss_typical_standard_deduction

hoh_typical_standard_deduction(r) == r.hoh_typical_standard_deduction

additional_deduction_unmarried(r) == r.additional_deduction_unmarried

additional_deduction_married(r) == r.additional_deduction_married

dependent_earned_income_addition(r) == r.dependent_earned_income_addition

dependent_minimum_deduction(r) == r.dependent_minimum_deduction

(***************************************************************************)
(* rules/mod.rs: the provided methods of TaxYearRules                      *)
(***************************************************************************)
\* variant: MarriedFilingSeparately grouped with the married joint base
typical_standard_deduction_mfs_joint(r, status) ==
    CASE status = "Single" ->
            single_mfs_typical_standard_deduction(r)
      [] status \in {"MarriedFilingJointly", "MarriedFilingSeparately",
                     "QualifyingSurvivingSpouse"} ->
            mfj_qss_typical_standard_deduction(r)
      [] status = "HeadOfHousehold" ->
            hoh_typical_standard_deduction(r)

typical_standard_deduction(r, status) ==
    CASE status \in {"Single", "MarriedFilingSeparately"} ->
            single_mfs_typical_standard_deduction(r)
      [] status \in {"MarriedFilingJointly", "QualifyingSurvivingSpouse"} ->
            mfj_qss_typical_standard_deduction(r)
      [] status = "HeadOfHousehold" ->
            hoh_typical_standard_deduction(r)

\* the zero-deduction overrides (mod.rs 58-63)
zero_override(p) ==
    \/ p.is_dual_status_alien
    \/ (p.filing_status = "MarriedFilingSeparately" /\ p.spouse_itemizes)

per_box(r, p) ==
    IF p.filing_status \in {"Single", "HeadOfHousehold"}
    THEN additional_deduction_unmarried(r)
    ELSE additional_deduction_married(r)

\* variant: the spouse's boxes are never counted
boxes_taxpayer_only(p) == checked_boxes(p.taxpayer)

\* variant: the spouse's boxes are counted for every status
boxes_any_status(p) ==
    checked_boxes(p.taxpayer)
    + (IF p.spouse.some THEN checked_boxes(p.spouse.filer) ELSE 0)

boxes(p) ==
    IF p.filing_status \in {"Single", "HeadOfHousehold"}
    THEN checked_boxes(p.taxpayer)
    ELSE checked_boxes(p.taxpayer)
         + (IF p.spouse.some THEN checked_boxes(p.spouse.filer) ELSE 0)

additional(r, p) == per_box(r, p) * boxes(p)

\* variant: the cap is taken against the boxes-adjusted base
capped_base_boxes_adjusted(r, p) ==
    LET base == typical_standard_deduction(r, p.filing_status) + additional(r, p)
        earned_plus == p.earned_income + dependent_earned_income_addition(r)
        floor == dependent_minimum_deduction(r)
    IN  UsdMin(UsdMax(earned_plus, floor), base)

\* variant: the dependent minimum is not applied
capped_base_no_floor(r, p) ==
    LET base == typical_standard_deduction(r, p.filing_status)
        earned_plus == p.earned_income + dependent_earned_income_addition(r)
    IN  UsdMin(earned_plus, base)

\* variant: the result is not capped at the base
capped_base_uncapped(r, p) ==
    LET earned_plus == p.earned_income + dependent_earned_income_addition(r)
        floor == dependent_minimum_deduction(r)
    IN  UsdMax(earned_plus, floor)

capped_base(r, p) ==
    LET base == typical_standard_deduction(r, p.filing_status)
        earned_plus == p.earned_income + dependent_earned_income_addition(r)
        floor == dependent_minimum_deduction(r)
    IN  UsdMin(UsdMax(earned_plus, floor), base)

\* variant: the dual-status-alien override is tested after the dependent branch
standard_deduction_alien_late(r, p) ==
    IF p.filing_status = "MarriedFilingSeparately" /\ p.spouse_itemizes THEN ZERO
    ELSE IF p.is_dependent
         THEN capped_base(r, p) + additional(r, p)
         ELSE IF p.is_dual_status_alien THEN ZERO
         ELSE typical_standard_deduction(r, p.filing_status) + additional(r, p)

\* variant: the spouse-itemizes override tests the joint status
standard_deduction_itemizes_mfj(r, p) ==
    IF p.is_dual_status_alien THEN ZERO
    ELSE IF p.filing_status = "MarriedFilingJointly" /\ p.spouse_itemizes THEN ZERO
    ELSE IF p.is_dependent
         THEN capped_base(r, p) + additional(r, p)
         ELSE typical_standard_deduction(r, p.filing_status) + additional(r, p)

\* variant: MarriedFilingSeparately is zeroed whatever the spouse does
standard_deduction_mfs_zero(r, p) ==
    IF p.is_dual_status_alien THEN ZERO
    ELSE IF p.filing_status = "MarriedFilingSeparately" THEN ZERO
    ELSE IF p.is_dependent
         THEN capped_base(r, p) + additional(r, p)
         ELSE typical_standard_deduction(r, p.filing_status) + additional(r, p)

standard_deduction(r, p) ==
    IF p.is_dual_status_alien THEN ZERO
    ELSE IF p.filing_status = "MarriedFilingSeparately" /\ p.spouse_itemizes THEN ZERO
    ELSE IF p.is_dependent
         THEN capped_base(r, p) + additional(r, p)
         ELSE typical_standard_deduction(r, p.filing_status) + additional(r, p)

(***************************************************************************)
(* DeductionParams values a caller can build                               *)
(***************************************************************************)
EarnedIncomes ==
    {from_dollars(d) : d \in {0, 100, 500, 900, 3000, 5000, 15300, 20000, 31050, 40000}}
    \cup {from_cents(1530001), from_cents(89999)}

DeductionParams ==
    [filing_status : FilingStatus,
     taxpayer : Filer,
     spouse : OptionFiler,
     is_dependent : BOOLEAN,
     is_dual_status_alien : BOOLEAN,
     spouse_itemizes : BOOLEAN,
     earned_income : EarnedIncomes]

\* params(status) of the y2025 tests: default Filer, no spouse, no flags
DefaultParams(status) ==
    [filing_status |-> status,
     taxpayer |-> FilerDefault,
     spouse |-> None,
     is_dependent |-> FALSE,
     is_dual_status_alien |-> FALSE,
     spouse_itemizes |-> FALSE,
     earned_income |-> ZERO]

(***************************************************************************)
(* Calls of standard_deduction.  A caller builds a DeductionParams and     *)
(* calls the method; it may then set one more age/blindness flag on the    *)
(* taxpayer or on the spouse and call again.                               *)
(***************************************************************************)
FilerFlags == {"is_65_or_older", "is_blind"}

CallStandardDeduction ==
    /\ lastOp = "none"
    /\ \E p \in DeductionParams :
          /\ params' = p
          /\ deduction' = standard_deduction(rules, p)
    /\ lastOp' = "call"
    /\ prevDeduction' = ZERO
    /\ UNCHANGED <<rules, collab, inv, otherVars>>

CheckTaxpayerBox ==
    \E flag \in FilerFlags :
        /\ lastOp # "none"
        /\ ~params.taxpayer[flag]
        /\ params' = [params EXCEPT !.taxpayer[flag] = TRUE]
        /\ deduction' = standard_deduction(rules, params')
        /\ lastOp' = "check_taxpayer_box"
        /\ prevDeduction' = deduction
        /\ UNCHANGED <<rules, collab, inv, otherVars>>

CheckSpouseBox ==
    \E flag \in FilerFlags :
        /\ lastOp # "none"
        /\ params.spouse.some
        /\ ~params.spouse.filer[flag]
        /\ params' = [params EXCEPT !.spouse.filer[flag] = TRUE]
        /\ deduction' = standard_deduction(rules, params')
        /\ lastOp' = "check_spouse_box"
        /\ prevDeduction' = deduction
        /\ UNCHANGED <<rules, collab, inv, otherVars>>

\* the request's DeductionParams and its result are discarded after use
DiscardParams ==
    /\ lastOp # "none"
    /\ params' = DefaultParams("Single")
    /\ deduction' = ZERO
    /\ lastOp' = "none"
    /\ prevDeduction' = ZERO
    /\ UNCHANGED <<rules, collab, inv, otherVars>>

(***************************************************************************)
(* spine.rs: ledger keys, input, error                                     *)
(***************************************************************************)
Key == {"TotalIncome", "Adjustments", "AGI", "Deductions", "TaxableIncome",
        "RegularTax", "AdditionalTax", "TotalTaxPreCredits",
        "NonRefundableCredits", "TaxAfterNonRefundableCredits",
        "RefundableCredits", "TotalTax", "Withholding", "EstimatedPayments",
        "TotalPayments", "Refund", "AmountOwed"}

\* Ledger::new() and BTreeMap::insert
LedgerNew == [k \in {} |-> ZERO]

insert(ledger, key, value) ==
    [k \in (DOMAIN ledger) \cup {key} |-> IF k = key THEN value ELSE ledger[k]]

Wages == {from_dollars(d) : d \in {0, 10000, 15750, 50000, 23625}}
         \cup {from_cents(1575049), from_cents(1575050), from_cents(3105050)}

Withholdings == {from_dollars(d) : d \in {-100, 0, 2000, 3425, 10000}}

ReturnInput ==
    [tax_year : TaxYear,
     filing_status : FilingStatus,
     w2_wages : Wages,
     fed_withholding : Withholdings]

\* Result<Ledger, SpineError>; kind "None" while nothing has been returned
NoResult ==
    [kind |-> "None", ledger |-> LedgerNew, input |-> 0, rules |-> 0, source |-> "none"]

Ok(ledger) ==
    [kind |-> "Ok", ledger |-> ledger, input |-> 0, rules |-> 0, source |-> "none"]

YearMismatch(input_year, rules_year) ==
    [kind |-> "YearMismatch", ledger |-> LedgerNew,
     input |-> input_year, rules |-> rules_year, source |-> "none"]

\* From<TaxError> for SpineError, and Error::source
TaxComputeError(e) ==
    [kind |-> "TaxComputeError", ledger |-> LedgerNew,
     input |-> 0, rules |-> 0, source |-> e]

(***************************************************************************)
(* The bracket-lookup collaborator us_tax_brackets::compute_tax: a         *)
(* deterministic function of (year, status, whole dollars) that yields a   *)
(* whole-dollar tax or a TaxError.  collab selects one bracket table.      *)
(***************************************************************************)
Collabs == {"flat", "only2025", "capped", "failing", "rebate"}

TaxErrors == {"UnsupportedYear", "IncomeOutOfRange", "TableUnavailable"}

TaxOk(tax) == [ok |-> TRUE, tax |-> tax, err |-> "none"]

TaxErr(e) == [ok |-> FALSE, tax |-> 0, err |-> e]

FlatTax(status, dollars) ==
    IF status \in {"MarriedFilingJointly", "QualifyingSurvivingSpouse"}
    THEN dollars \div 20
    ELSE dollars \div 10

compute_tax(c, tax_year, status, dollars) ==
    CASE c = "flat" -> TaxOk(FlatTax(status, dollars))
      [] c = "only2025" ->
            IF tax_year = Y2025 THEN TaxOk(FlatTax(status, dollars))
            ELSE TaxErr("UnsupportedYear")
      [] c = "capped" ->
            IF dollars > 30000 THEN TaxErr("IncomeOutOfRange")
            ELSE TaxOk(FlatTax(status, dollars))
      [] c = "failing" -> TaxErr("TableUnavailable")
      [] c = "rebate" ->
            TaxOk(IF FlatTax(status, dollars) > 500
                  THEN FlatTax(status, dollars) - 500 ELSE 0)

(***************************************************************************)
(* spine.rs: compute_spine, as the steps of one invocation                 *)
(***************************************************************************)
NoInput ==
    [tax_year |-> Y2025, filing_status |-> "Single",
     w2_wages |-> ZERO, fed_withholding |-> ZERO]

\* the arguments of the bracket lookup, before any lookup was made
NoArgs == [tax_year |-> Y2025, filing_status |-> "Single", dollars |-> 0]

IdleInv ==
    [pc |-> "idle", input |-> NoInput,
     total_income |-> ZERO, adjustments |-> ZERO, agi |-> ZERO,
     deductions |-> ZERO, taxable_income |-> ZERO,
     taxable_whole_dollars |-> 0, lookup_args |-> NoArgs,
     regular_tax |-> ZERO,
     dedCalls |-> 0, lookups |-> 0, result |-> NoResult]

\* i64 division truncates toward zero
TruncDiv(a, b) == IF a < 0 THEN 0 - ((0 - a) \div b) ELSE a \div b

\* rules.standard_deduction(..) as compute_spine obtains it
spine_deductions(r, status) == standard_deduction(r, DefaultParams(status))

\* variant: the year comparison is left out
year_mismatch_unchecked(r, input) == FALSE

\* line 98
year_mismatch(r, input) == input.tax_year # year(r)

\* lines 98-103
StepCheckYear(r, s) ==
    IF year_mismatch(r, s.input)
    THEN [s EXCEPT !.pc = "done",
                   !.result = YearMismatch(s.input.tax_year, year(r))]
    ELSE [s EXCEPT !.pc = "deduct"]

\* variant: the difference is not clamped at zero
taxable_of_unclamped(agi, deductions) == agi - deductions

\* line 113
taxable_of(agi, deductions) == UsdMax(agi - deductions, ZERO)

\* lines 105-113
StepDeduct(r, s) ==
    LET total_income == s.input.w2_wages
        adjustments == ZERO
        agi == total_income - adjustments
        deductions == spine_deductions(r, s.input.filing_status)
        taxable_income == taxable_of(agi, deductions)
    IN  [s EXCEPT !.pc = "lookup",
                  !.total_income = total_income,
                  !.adjustments = adjustments,
                  !.agi = agi,
                  !.deductions = deductions,
                  !.taxable_income = taxable_income,
                  !.dedCalls = @ + 1]

\* variant: the cents are cut off instead of rounded
taxable_whole_of_truncated(taxable_income) ==
    TruncDiv(cents(taxable_income), 100)

\* line 116
taxable_whole_of(taxable_income) ==
    TruncDiv(cents(irs_round(taxable_income)), 100)

\* line 118: the arguments handed to us_tax_brackets::compute_tax
lookup_args_of(s) ==
    [tax_year |-> s.input.tax_year,
     filing_status |-> s.input.filing_status,
     dollars |-> taxable_whole_of(s.taxable_income)]

\* variant: a failed lookup is replaced by a tax of zero
StepLookup_default_tax(c, s) ==
    LET args == lookup_args_of(s)
        looked == compute_tax(c, args.tax_year, args.filing_status, args.dollars)
    IN  [s EXCEPT !.pc = "assemble",
                  !.taxable_whole_dollars = args.dollars,
                  !.lookup_args = args,
                  !.regular_tax = IF looked.ok THEN from_dollars(looked.tax) ELSE ZERO,
                  !.lookups = @ + 1]

\* variant: a failed lookup is tried once more
StepLookup_retry_once(c, s) ==
    LET args == lookup_args_of(s)
        looked == compute_tax(c, args.tax_year, args.filing_status, args.dollars)
    IN  IF looked.ok
        THEN [s EXCEPT !.pc = "assemble",
                       !.taxable_whole_dollars = args.dollars,
                       !.lookup_args = args,
                       !.regular_tax = from_dollars(looked.tax),
                       !.lookups = @ + 1]
        ELSE IF s.lookups = 0
        THEN [s EXCEPT !.taxable_whole_dollars = args.dollars,
                       !.lookup_args = args,
                       !.lookups = @ + 1]
        ELSE [s EXCEPT !.pc = "done",
                       !.taxable_whole_dollars = args.dollars,
                       !.lookup_args = args,
                       !.lookups = @ + 1,
                       !.result = TaxComputeError(looked.err)]

\* lines 116-119
StepLookup(c, s) ==
    LET args == lookup_args_of(s)
        looked == compute_tax(c, args.tax_year, args.filing_status, args.dollars)
    IN  IF looked.ok
        THEN [s EXCEPT !.pc = "assemble",
                       !.taxable_whole_dollars = args.dollars,
                       !.lookup_args = args,
                       !.regular_tax = from_dollars(looked.tax),
                       !.lookups = @ + 1]
        ELSE [s EXCEPT !.pc = "done",
                       !.taxable_whole_dollars = args.dollars,
                       !.lookup_args = args,
                       !.lookups = @ + 1,
                       !.result = TaxComputeError(looked.err)]

\* variant: the amount owed is inserted under the Refund key
BuildLedger_owed_as_refund(v) ==
    LET l1 == insert(LedgerNew, "TotalIncome", v.total_income)
        l2 == insert(l1, "Adjustments", v.adjustments)
        l3 == insert(l2, "AGI", v.agi)
        l4 == insert(l3, "Deductions", v.deductions)
        l5 == insert(l4, "TaxableIncome", v.taxable_income)
        l6 == insert(l5, "RegularTax", v.regular_tax)
        l7 == insert(l6, "AdditionalTax", v.additional_tax)
        l8 == insert(l7, "TotalTaxPreCredits", v.total_tax_pre_credits)
        l9 == insert(l8, "NonRefundableCredits", v.nonrefundable_credits)
        l10 == insert(l9, "TaxAfterNonRefundableCredits", v.tax_after_nonrefundable)
        l11 == insert(l10, "RefundableCredits", v.refundable_credits)
        l12 == insert(l11, "TotalTax", v.total_tax)
        l13 == insert(l12, "Withholding", v.withholding)
        l14 == insert(l13, "EstimatedPayments", v.estimated_payments)
        l15 == insert(l14, "TotalPayments", v.total_payments)
        l16 == insert(l15, "Refund", v.refund)
    IN  insert(l16, "Refund", v.owed)

\* variant: the AGI is inserted under the Adjustments key as well
BuildLedger_adjustments_agi(v) ==
    LET l1 == insert(LedgerNew, "TotalIncome", v.total_income)
        l2 == insert(l1, "Adjustments", v.agi)
        l3 == insert(l2, "AGI", v.agi)
        l4 == insert(l3, "Deductions", v.deductions)
        l5 == insert(l4, "TaxableIncome", v.taxable_income)
        l6 == insert(l5, "RegularTax", v.regular_tax)
        l7 == insert(l6, "AdditionalTax", v.additional_tax)
        l8 == insert(l7, "TotalTaxPreCredits", v.total_tax_pre_credits)
        l9 == insert(l8, "NonRefundableCredits", v.nonrefundable_credits)
        l10 == insert(l9, "TaxAfterNonRefundableCredits", v.tax_after_nonrefundable)
        l11 == insert(l10, "RefundableCredits", v.refundable_credits)
        l12 == insert(l11, "TotalTax", v.total_tax)
        l13 == insert(l12, "Withholding", v.withholding)
        l14 == insert(l13, "EstimatedPayments", v.estimated_payments)
        l15 == insert(l14, "TotalPayments", v.total_payments)
        l16 == insert(l15, "Refund", v.refund)
    IN  insert(l16, "AmountOwed", v.owed)

\* lines 142-159
BuildLedger(v) ==
    LET l1 == insert(LedgerNew, "TotalIncome", v.total_income)
        l2 == insert(l1, "Adjustments", v.adjustments)
        l3 == insert(l2, "AGI", v.agi)
        l4 == insert(l3, "Deductions", v.deductions)
        l5 == insert(l4, "TaxableIncome", v.taxable_income)
        l6 == insert(l5, "RegularTax", v.regular_tax)
        l7 == insert(l6, "AdditionalTax", v.additional_tax)
        l8 == insert(l7, "TotalTaxPreCredits", v.total_tax_pre_credits)
        l9 == insert(l8, "NonRefundableCredits", v.nonrefundable_credits)
        l10 == insert(l9, "TaxAfterNonRefundableCredits", v.tax_after_nonrefundable)
        l11 == insert(l10, "RefundableCredits", v.refundable_credits)
        l12 == insert(l11, "TotalTax", v.total_tax)
        l13 == insert(l12, "Withholding", v.withholding)
        l14 == insert(l13, "EstimatedPayments", v.estimated_payments)
        l15 == insert(l14, "TotalPayments", v.total_payments)
        l16 == insert(l15, "Refund", v.refund)
    IN  insert(l16, "AmountOwed", v.owed)

\* variant: the refund is the net, not clamped at zero
refund_of_unclamped(net) == net

\* line 139
refund_of(net) == UsdMax(net, ZERO)

\* variant: the amount owed is the negated net, not clamped at zero
owed_of_unclamped(net) == ZERO - net

\* variant: the amount owed is the magnitude of the net
owed_of_magnitude(net) == unsigned_abs(net)

\* variant: the net is not negated before the clamp
owed_of_unnegated(net) == UsdMax(net, ZERO)

\* line 140
owed_of(net) == UsdMax(ZERO - net, ZERO)

\* lines 121-161
StepAssemble(s) ==
    LET additional_tax == ZERO
        total_tax_pre_credits == s.regular_tax + additional_tax
        nonrefundable_credits == ZERO
        tax_after_nonrefundable ==
            UsdMax(total_tax_pre_credits - nonrefundable_credits, ZERO)
        refundable_credits == ZERO
        total_tax == tax_after_nonrefundable - refundable_credits
        withholding == s.input.fed_withholding
        estimated_payments == ZERO
        total_payments == withholding + estimated_payments
        net == total_payments - total_tax
        refund == refund_of(net)
        owed == owed_of(net)
        ledger ==
            BuildLedger(
                [total_income |-> s.total_income,
                 adjustments |-> s.adjustments,
                 agi |-> s.agi,
                 deductions |-> s.deductions,
                 taxable_income |-> s.taxable_income,
                 regular_tax |-> s.regular_tax,
                 additional_tax |-> additional_tax,
                 total_tax_pre_credits |-> total_tax_pre_credits,
                 nonrefundable_credits |-> nonrefundable_credits,
                 tax_after_nonrefundable |-> tax_after_nonrefundable,
                 refundable_credits |-> refundable_credits,
                 total_tax |-> total_tax,
                 withholding |-> withholding,
                 estimated_payments |-> estimated_payments,
                 total_payments |-> total_payments,
                 refund |-> refund,
                 owed |-> owed])
    IN  [s EXCEPT !.pc = "done", !.result = Ok(ledger)]

SpineCall ==
    /\ inv.pc = "idle"
    /\ \E input \in ReturnInput :
          inv' = [IdleInv EXCEPT !.pc = "check_year", !.input = input]
    /\ UNCHANGED <<rules, collab, dedVars, otherVars>>

SpineCheckYear ==
    /\ inv.pc = "check_year"
    /\ inv' = StepCheckYear(rules, inv)
    /\ UNCHANGED <<rules, collab, dedVars, otherVars>>

SpineDeduct ==
    /\ inv.pc = "deduct"
    /\ inv' = StepDeduct(rules, inv)
    /\ UNCHANGED <<rules, collab, dedVars, otherVars>>

SpineLookup ==
    /\ inv.pc = "lookup"
    /\ inv' = StepLookup(collab, inv)
    /\ UNCHANGED <<rules, collab, dedVars, otherVars>>

SpineAssemble ==
    /\ inv.pc = "assemble"
    /\ inv' = StepAssemble(inv)
    /\ UNCHANGED <<rules, collab, dedVars, otherVars>>

\* the caller takes the returned value; the next call starts afresh
SpineReturn ==
    /\ inv.pc = "done"
    /\ inv' = IdleInv
    /\ UNCHANGED <<rules, collab, dedVars, otherVars>>

(***************************************************************************)
(* spine.rs: compute_spine as one call, and concurrent invocations that    *)
(* borrow the same rules value                                             *)
(***************************************************************************)
compute_spine(r, c, input) ==
    LET s0 == [IdleInv EXCEPT !.pc = "check_year", !.input = input]
        s1 == StepCheckYear(r, s0)
    IN  IF s1.pc = "done" THEN s1.result
        ELSE LET s2 == StepDeduct(r, s1)
                 s3 == StepLookup(c, s2)
             IN  IF s3.pc = "done" THEN s3.result
                 ELSE StepAssemble(s3).result

Procs == {1, 2}

ConcInputs ==
    [tax_year : TaxYear,
     filing_status : {"Single", "MarriedFilingJointly"},
     w2_wages : {from_dollars(10000), from_dollars(50000)},
     fed_withholding : {ZERO, from_dollars(10000)}]

\* variant: the intermediate amounts live in storage shared by all invocations
LocalsOf_shared(p, all) ==
    [all[1] EXCEPT !.pc = all[p].pc, !.input = all[p].input,
                   !.result = all[p].result,
                   !.dedCalls = all[p].dedCalls, !.lookups = all[p].lookups]

\* the `let` bindings of an invocation are its own
LocalsOf(p, all) == all[p]

ConcCall(p) ==
    /\ invs[p].pc = "idle"
    /\ \E input \in ConcInputs :
          invs' = [invs EXCEPT ![p] = [IdleInv EXCEPT !.pc = "check_year",
                                                     !.input = input]]
    /\ UNCHANGED <<rules, collab, dedVars, inv, usd, amount>>

ConcCheckYear(p) ==
    /\ invs[p].pc = "check_year"
    /\ invs' = [invs EXCEPT ![p] = StepCheckYear(rules, LocalsOf(p, invs))]
    /\ UNCHANGED <<rules, collab, dedVars, inv, usd, amount>>

ConcDeduct(p) ==
    /\ invs[p].pc = "deduct"
    /\ invs' = [invs EXCEPT ![p] = StepDeduct(rules, LocalsOf(p, invs))]
    /\ UNCHANGED <<rules, collab, dedVars, inv, usd, amount>>

ConcLookup(p) ==
    /\ invs[p].pc = "lookup"
    /\ invs' = [invs EXCEPT ![p] = StepLookup(collab, LocalsOf(p, invs))]
    /\ UNCHANGED <<rules, collab, dedVars, inv, usd, amount>>

ConcAssemble(p) ==
    /\ invs[p].pc = "assemble"
    /\ invs' = [invs EXCEPT ![p] = StepAssemble(LocalsOf(p, invs))]
    /\ UNCHANGED <<rules, collab, dedVars, inv, usd, amount>>

\* the caller keeps the returned value until it starts its next call
ConcReturn(p) ==
    /\ invs[p].pc = "done"
    /\ invs' = [invs EXCEPT ![p] = IdleInv]
    /\ UNCHANGED <<rules, collab, dedVars, inv, usd, amount>>

(***************************************************************************)
(* usd_amount.rs: UsdAmount, a rust_decimal value (mantissa and scale)     *)
(***************************************************************************)
\* Decimal::new(num, scale) is num / 10^scale
Decimal_new(num, scale) == [mantissa |-> num, scale |-> scale]

RECURSIVE Pow10(_)
Pow10(k) == IF k = 0 THEN 1 ELSE 10 * Pow10(k - 1)

UsdAmount_from_cents(c) == Decimal_new(c, 2)

UsdAmount_from_dollars(dollars) == Decimal_new(dollars, 0)

\* Decimal * Decimal: mantissas multiply, scales add
Decimal_mul(a, b) == Decimal_new(a.mantissa * b.mantissa, a.scale + b.scale)

\* Decimal::trunc drops the fractional digits
Decimal_trunc(d) == Decimal_new(TruncDiv(d.mantissa, Pow10(d.scale)), 0)

\* ToPrimitive::to_i64 takes the integral part
to_i64(d) == TruncDiv(d.mantissa, Pow10(d.scale))

as_cents(a) == to_i64(Decimal_trunc(Decimal_mul(a, Decimal_new(100, 0))))

\* round_dp_with_strategy(dp, RoundingStrategy::MidpointAwayFromZero)
round_dp_MidpointAwayFromZero(d, dp) ==
    IF d.scale <= dp THEN d
    ELSE LET unit == Pow10(d.scale - dp)
             abs == unsigned_abs(d.mantissa)
             rem == abs % unit
             rounded == IF 2 * rem >= unit THEN (abs \div unit) + 1 ELSE abs \div unit
         IN  Decimal_new(IF d.mantissa < 0 THEN 0 - rounded ELSE rounded, dp)

\* round_dp(dp), whose strategy is MidpointNearestEven
round_dp_MidpointNearestEven(d, dp) ==
    IF d.scale <= dp THEN d
    ELSE LET unit == Pow10(d.scale - dp)
             abs == unsigned_abs(d.mantissa)
             rem == abs % unit
             quot == abs \div unit
             rounded == IF 2 * rem > unit \/ (2 * rem = unit /\ quot % 2 = 1)
                        THEN quot + 1 ELSE quot
         IN  Decimal_new(IF d.mantissa < 0 THEN 0 - rounded ELSE rounded, dp)

\* variant: round_dp(0) is called, without naming the strategy
round_to_dollar_round_dp(a) == round_dp_MidpointNearestEven(a, 0)

round_to_dollar(a) == round_dp_MidpointAwayFromZero(a, 0)

\* dec: the current value; op: the operation last applied; origin: the
\* cents it was constructed from; cents: what as_cents returned
AmountIdle ==
    [dec |-> Decimal_new(0, 0), op |-> "none", origin |-> 0, cents |-> 0]

AmountConstructed(c) ==
    [dec |-> UsdAmount_from_cents(c), op |-> "new", origin |-> c, cents |-> 0]

AmountRoundToDollar ==
    /\ amount.op = "new"
    /\ amount' = [amount EXCEPT !.dec = round_to_dollar(@),
                                !.op = "round_to_dollar"]
    /\ UNCHANGED <<rules, collab, dedVars, inv, invs, usd>>

AmountAsCents ==
    /\ amount.op = "round_to_dollar"
    /\ amount' = [amount EXCEPT !.cents = as_cents(amount.dec),
                                !.op = "as_cents"]
    /\ UNCHANGED <<rules, collab, dedVars, inv, invs, usd>>

(***************************************************************************)
(* types/usd.rs: operations on a Usd value                                 *)
(***************************************************************************)
MaxCents == 1100

MaxDollars == 100

UsdInputs ==
    {from_cents(c) : c \in (0 - MaxCents)..MaxCents}
    \cup {from_dollars(d) : d \in (0 - MaxDollars)..MaxDollars}

NoText == <<>>

\* value: the current amount; op: the operation that produced it from arg;
\* argOp: the operation that had produced arg; origin: the constructed amount
UsdIdle ==
    [value |-> ZERO, op |-> "none", arg |-> ZERO, argOp |-> "none",
     origin |-> ZERO, text |-> NoText]

Constructed(v) ==
    [value |-> v, op |-> "new", arg |-> v, argOp |-> "none",
     origin |-> v, text |-> NoText]

Applied(u, name, result, rendered) ==
    [value |-> result, op |-> name, arg |-> u.value, argOp |-> u.op,
     origin |-> u.origin, text |-> rendered]

\* the amounts the operations are applied to stay within the modelled range
UsdInRange ==
    /\ usd.op # "none"
    /\ usd.value >= 0 - (from_dollars(MaxDollars) + 200)
    /\ usd.value <= from_dollars(MaxDollars) + 200

UsdIrsRound ==
    /\ UsdInRange
    /\ usd' = Applied(usd, "irs_round", irs_round(usd.value), NoText)
    /\ UNCHANGED <<rules, collab, dedVars, inv, invs, amount>>

UsdRoundUp ==
    /\ UsdInRange
    /\ usd' = Applied(usd, "round_up", round_up(usd.value), NoText)
    /\ UNCHANGED <<rules, collab, dedVars, inv, invs, amount>>

UsdRoundDown ==
    /\ UsdInRange
    /\ usd' = Applied(usd, "round_down", round_down(usd.value), NoText)
    /\ UNCHANGED <<rules, collab, dedVars, inv, invs, amount>>

UsdDisplay ==
    /\ UsdInRange
    /\ usd.op # "display"
    /\ usd' = Applied(usd, "display", usd.value, Display(usd.value))
    /\ UNCHANGED <<rules, collab, dedVars, inv, invs, amount>>

(***************************************************************************)
(* Specifications                                                          *)
(***************************************************************************)
Init ==
    /\ rules \in RuleSets
    /\ collab \in Collabs
    /\ params = DefaultParams("Single")
    /\ deduction = ZERO
    /\ lastOp = "none"
    /\ prevDeduction = ZERO
    /\ inv = IdleInv
    /\ invs = [p \in Procs |-> IdleInv]
    /\ usd = UsdIdle
    /\ amount = AmountIdle

\* standard_deduction never consults the bracket table: one table suffices
InitDed == Init /\ collab = "flat"

NextDed ==
    \/ CallStandardDeduction
    \/ CheckTaxpayerBox
    \/ CheckSpouseBox
    \/ DiscardParams

NextSpine ==
    \/ SpineCall
    \/ SpineCheckYear
    \/ SpineDeduct
    \/ SpineLookup
    \/ SpineAssemble
    \/ SpineReturn

NextConc ==
    \E p \in Procs :
        \/ ConcCall(p)
        \/ ConcCheckYear(p)
        \/ ConcDeduct(p)
        \/ ConcLookup(p)
        \/ ConcAssemble(p)
        \/ ConcReturn(p)

\* the Usd operations never consult the rules or the bracket table
InitUsd ==
    /\ rules = Rules2025
    /\ collab = "flat"
    /\ params = DefaultParams("Single")
    /\ deduction = ZERO
    /\ lastOp = "none"
    /\ prevDeduction = ZERO
    /\ inv = IdleInv
    /\ invs = [p \in Procs |-> IdleInv]
    /\ usd \in {Constructed(v) : v \in UsdInputs}
    /\ amount = AmountIdle

\* one cent amount constructed in both currency types
LineageCents == (0 - MaxCents)..MaxCents

InitLineage ==
    /\ rules = Rules2025
    /\ collab = "flat"
    /\ params = DefaultParams("Single")
    /\ deduction = ZERO
    /\ lastOp = "none"
    /\ prevDeduction = ZERO
    /\ inv = IdleInv
    /\ invs = [p \in Procs |-> IdleInv]
    /\ \E c \in LineageCents :
          /\ usd = Constructed(from_cents(c))
          /\ amount = AmountConstructed(c)

NextLineage ==
    \/ UsdIrsRound
    \/ AmountRoundToDollar
    \/ AmountAsCents

NextUsd ==
    \/ UsdIrsRound
    \/ UsdRoundUp
    \/ UsdRoundDown
    \/ UsdDisplay

\* calls of standard_deduction on a shared rule set
SpecDed == InitDed /\ [][NextDed]_vars

\* invocations of compute_spine
SpecSpine == Init /\ [][NextSpine]_vars

\* an invocation that was called runs each of its steps: the function is
\* straight-line arithmetic and the bracket lookup returns
SpecSpineFair ==
    /\ SpecSpine
    /\ WF_vars(SpineCheckYear)
    /\ WF_vars(SpineDeduct)
    /\ WF_vars(SpineLookup)
    /\ WF_vars(SpineAssemble)

\* concurrent invocations of compute_spine on one rules value
SpecConc == Init /\ [][NextConc]_vars

\* rounding and rendering of Usd values
SpecUsd == InitUsd /\ [][NextUsd]_vars

\* the same cents rounded to dollars as a Usd and as a UsdAmount
SpecLineage == InitLineage /\ [][NextLineage]_vars

(***************************************************************************)
(* Properties of standard_deduction (checked under SpecDed)                *)
(***************************************************************************)
Called == lastOp # "none"

SENIOR_BLIND == [is_65_or_older |-> TRUE, is_blind |-> TRUE]

\* C1: whenever is_dual_status_alien is set, standard_deduction returns
\* exactly zero, whatever the status, boxes, dependent flag, spouse-itemizes
\* flag and earned income are.
C1_DualStatusAlienIsZero ==
    (Called /\ params.is_dual_status_alien) => deduction = ZERO

C1_Witness ==
    /\ Called
    /\ params.is_dual_status_alien
    /\ params.is_dependent
    /\ params.filing_status = "MarriedFilingJointly"
    /\ checked_boxes(params.taxpayer) = 2
    /\ params.spouse.some /\ checked_boxes(params.spouse.filer) = 2
    /\ params.earned_income = from_dollars(5000)
    /\ deduction = ZERO

\* C2: under MarriedFilingSeparately with spouse_itemizes set,
\* standard_deduction returns exactly zero for every value of the other
\* parameters.
C2_MfsSpouseItemizesIsZero ==
    (Called /\ params.filing_status = "MarriedFilingSeparately" /\ params.spouse_itemizes)
        => deduction = ZERO

C2_Witness ==
    /\ Called
    /\ params.filing_status = "MarriedFilingSeparately"
    /\ params.spouse_itemizes
    /\ ~params.is_dual_status_alien
    /\ params.is_dependent
    /\ checked_boxes(params.taxpayer) = 2
    /\ params.spouse.some /\ checked_boxes(params.spouse.filer) = 1
    /\ deduction = ZERO

\* the base, rate and box count as the claims state them, read off the
\* rule-set record and the parameters directly
StatedBase ==
    CASE params.filing_status \in {"Single", "MarriedFilingSeparately"} ->
            rules.single_mfs_typical_standard_deduction
      [] params.filing_status \in {"MarriedFilingJointly", "QualifyingSurvivingSpouse"} ->
            rules.mfj_qss_typical_standard_deduction
      [] params.filing_status = "HeadOfHousehold" ->
            rules.hoh_typical_standard_deduction

TaxpayerBoxes ==
    Cardinality({f \in FilerFlags : params.taxpayer[f]})

SpouseBoxes ==
    IF params.spouse.some
    THEN Cardinality({f \in FilerFlags : params.spouse.filer[f]})
    ELSE 0

StatedAdditional ==
    IF params.filing_status \in {"Single", "HeadOfHousehold"}
    THEN rules.additional_deduction_unmarried * TaxpayerBoxes
    ELSE rules.additional_deduction_married * (TaxpayerBoxes + SpouseBoxes)

NoZeroOverride ==
    /\ ~params.is_dual_status_alien
    /\ ~(params.filing_status = "MarriedFilingSeparately" /\ params.spouse_itemizes)

\* C3: for a non-dependent with no zero-override the result is
\* typical_standard_deduction(status) + per_box * boxes, with the unmarried
\* rate and the taxpayer's boxes for Single/HoH and the married rate and
\* taxpayer's plus spouse's boxes for MFJ/MFS/QSS; under Rules2025 Single
\* senior+blind gives $19,750 and MFJ with all four boxes gives $37,900.
C3_NonDependentBasePlusBoxes ==
    (Called /\ NoZeroOverride /\ ~params.is_dependent) =>
        /\ deduction = StatedBase + StatedAdditional
        /\ (rules = Rules2025 /\ params.filing_status = "Single"
                /\ params.taxpayer = SENIOR_BLIND)
              => deduction = from_dollars(19750)
        /\ (rules = Rules2025 /\ params.filing_status = "MarriedFilingJointly"
                /\ params.taxpayer = SENIOR_BLIND /\ params.spouse = Some(SENIOR_BLIND))
              => deduction = from_dollars(37900)

C3_Witness ==
    /\ Called
    /\ rules = Rules2025
    /\ NoZeroOverride
    /\ ~params.is_dependent
    /\ params.filing_status = "MarriedFilingJointly"
    /\ params.taxpayer = SENIOR_BLIND
    /\ params.spouse = Some(SENIOR_BLIND)
    /\ deduction = from_dollars(37900)

StatedCappedBase ==
    LET earned_plus == params.earned_income + rules.dependent_earned_income_addition
        raised == IF earned_plus > rules.dependent_minimum_deduction
                  THEN earned_plus ELSE rules.dependent_minimum_deduction
    IN  IF raised < StatedBase THEN raised ELSE StatedBase

\* C4: for a dependent with no zero-override the result is
\* min(max(earned_income + addition, minimum), typical base) + per_box * boxes:
\* the cap is the ordinary base and the additional is added after clamping.
\* Under Rules2025, Single: $0 -> $1,350, $5,000 -> $5,450, $20,000 -> $15,750,
\* senior+blind with $3,000 -> $7,450.
C4_DependentClampedPlusBoxes ==
    (Called /\ NoZeroOverride /\ params.is_dependent) =>
        /\ deduction = StatedCappedBase + StatedAdditional
        /\ (rules = Rules2025 /\ params.filing_status = "Single") =>
              /\ (params.taxpayer = FilerDefault /\ params.earned_income = ZERO)
                    => deduction = from_dollars(1350)
              /\ (params.taxpayer = FilerDefault /\ params.earned_income = from_dollars(5000))
                    => deduction = from_dollars(5450)
              /\ (params.taxpayer = FilerDefault /\ params.earned_income = from_dollars(20000))
                    => deduction = from_dollars(15750)
              /\ (params.taxpayer = SENIOR_BLIND /\ params.earned_income = from_dollars(3000))
                    => deduction = from_dollars(7450)

C4_Witness ==
    /\ Called
    /\ rules = Rules2025
    /\ NoZeroOverride
    /\ params.is_dependent
    /\ params.filing_status = "Single"
    /\ params.taxpayer = SENIOR_BLIND
    /\ params.earned_income = from_dollars(20000)
    /\ deduction = from_dollars(19750)

\* C5 as stated: for every rule set, a dependent's result minus the per-box
\* additional is >= dependent_minimum_deduction and <= the typical base.
C5_Original ==
    (Called /\ NoZeroOverride /\ params.is_dependent) =>
        /\ deduction - StatedAdditional >= rules.dependent_minimum_deduction
        /\ deduction - StatedAdditional <= StatedBase

\* C5 (amended): for every rule set, a dependent's result minus the per-box
\* additional is <= the typical base for the status, and it is >= the
\* dependent minimum whenever that minimum does not exceed the typical base.
C5_DependentWithinBounds ==
    (Called /\ NoZeroOverride /\ params.is_dependent) =>
        /\ deduction - StatedAdditional <= StatedBase
        /\ (rules.dependent_minimum_deduction <= StatedBase)
              => deduction - StatedAdditional >= rules.dependent_minimum_deduction

C5_Witness ==
    /\ Called
    /\ NoZeroOverride
    /\ params.is_dependent
    /\ rules = Rules2024
    /\ params.filing_status = "HeadOfHousehold"
    /\ params.earned_income = from_dollars(100)
    /\ checked_boxes(params.taxpayer) = 1
    /\ deduction - StatedAdditional = rules.dependent_minimum_deduction

\* q is p with at least one more age/blindness flag set on the taxpayer or
\* on the spouse, and every other parameter the same
BoxesAdded(p, q) ==
    /\ q # p
    /\ q.filing_status = p.filing_status
    /\ q.is_dependent = p.is_dependent
    /\ q.is_dual_status_alien = p.is_dual_status_alien
    /\ q.spouse_itemizes = p.spouse_itemizes
    /\ q.earned_income = p.earned_income
    /\ q.spouse.some = p.spouse.some
    /\ \A f \in FilerFlags :
          /\ p.taxpayer[f] => q.taxpayer[f]
          /\ p.spouse.filer[f] => q.spouse.filer[f]

\* C6: under Rules2025, with the status and every other parameter held
\* fixed, setting an additional age/blindness flag on the taxpayer or on the
\* spouse never lowers the result of standard_deduction.
C6_MonotoneInBoxes ==
    [][(rules = Rules2025 /\ Called /\ lastOp' # "none" /\ BoxesAdded(params, params'))
          => deduction' >= deduction]_vars

C6_Witness ==
    /\ rules = Rules2025
    /\ lastOp = "check_spouse_box"
    /\ params.is_dependent
    /\ NoZeroOverride
    /\ params.filing_status = "MarriedFilingSeparately"
    /\ deduction = prevDeduction + from_dollars(1600)

\* C7: with default parameters standard_deduction returns the single/MFS
\* base for Single and MarriedFilingSeparately, the MFJ/QSS base for
\* MarriedFilingJointly and QualifyingSurvivingSpouse and the HoH base for
\* HeadOfHousehold; under Rules2025 these are $15,750, $15,750, $31,500,
\* $31,500 and $23,625.
C7_TypicalByStatus ==
    (Called /\ params = DefaultParams(params.filing_status)) =>
        /\ params.filing_status \in {"Single", "MarriedFilingSeparately"}
              => deduction = rules.single_mfs_typical_standard_deduction
        /\ params.filing_status \in {"MarriedFilingJointly", "QualifyingSurvivingSpouse"}
              => deduction = rules.mfj_qss_typical_standard_deduction
        /\ params.filing_status = "HeadOfHousehold"
              => deduction = rules.hoh_typical_standard_deduction
        /\ rules = Rules2025 =>
              deduction =
                CASE params.filing_status = "Single" -> from_dollars(15750)
                  [] params.filing_status = "MarriedFilingSeparately" -> from_dollars(15750)
                  [] params.filing_status = "MarriedFilingJointly" -> from_dollars(31500)
                  [] params.filing_status = "QualifyingSurvivingSpouse" -> from_dollars(31500)
                  [] params.filing_status = "HeadOfHousehold" -> from_dollars(23625)

C7_Witness ==
    /\ lastOp = "call"
    /\ rules = Rules2025
    /\ params = DefaultParams("MarriedFilingSeparately")
    /\ deduction = from_dollars(15750)

(***************************************************************************)
(* Properties of compute_spine (checked under SpecSpine)                   *)
(***************************************************************************)
Returned == inv.pc = "done"

YearsDiffer == inv.input.tax_year # rules.year

\* what the bracket lookup yields on the whole dollars this invocation
\* handed to it
LookupOutcome ==
    compute_tax(collab, inv.input.tax_year, inv.input.filing_status,
                inv.taxable_whole_dollars)

\* what the bracket lookup would yield for this input's wages, had the
\* invocation got that far
LookupWouldFail ==
    LET taxable == inv.input.w2_wages
                   - spine_deductions(rules, inv.input.filing_status)
        dollars == IF taxable > 0 THEN irs_round(taxable) \div 100 ELSE 0
    IN  ~compute_tax(collab, inv.input.tax_year, inv.input.filing_status, dollars).ok

\* C8: when input.tax_year differs from rules.year(), compute_spine returns
\* YearMismatch carrying the input's year and the rules' year and no ledger,
\* and it does so before any other step: the standard deduction is not
\* computed and the bracket lookup is not invoked, also for inputs on which
\* the lookup would fail.
C8_YearMismatchFirst ==
    (inv.pc # "idle" /\ YearsDiffer) =>
        /\ inv.dedCalls = 0
        /\ inv.lookups = 0
        /\ inv.pc \in {"check_year", "done"}
        /\ Returned =>
              /\ inv.result.kind = "YearMismatch"
              /\ inv.result.input = inv.input.tax_year
              /\ inv.result.rules = rules.year
              /\ DOMAIN inv.result.ledger = {}

C8_Witness ==
    /\ Returned
    /\ YearsDiffer
    /\ inv.input.tax_year = Y2024
    /\ rules = Rules2025
    /\ LookupWouldFail
    /\ inv.result.kind = "YearMismatch"
    /\ inv.result.input = Y2024
    /\ inv.result.rules = Y2025
    /\ inv.lookups = 0

\* C9: when the years match and the bracket lookup returns an error e,
\* compute_spine returns TaxComputeError wrapping that same e as its source
\* and returns no ledger; the error is not replaced by a default tax.
C9_LookupErrorWrapped ==
    (Returned /\ ~YearsDiffer /\ ~LookupOutcome.ok) =>
        /\ inv.result.kind = "TaxComputeError"
        /\ inv.result.source = LookupOutcome.err
        /\ inv.result.source \in TaxErrors
        /\ DOMAIN inv.result.ledger = {}

C9_Witness ==
    /\ Returned
    /\ ~YearsDiffer
    /\ collab = "capped"
    /\ inv.input.w2_wages = from_dollars(50000)
    /\ inv.lookups = 1
    /\ inv.result.kind = "TaxComputeError"
    /\ inv.result.source = "IncomeOutOfRange"

\* C10: every ledger returned by a successful compute_spine has exactly the
\* seventeen Key values as its keys, each mapped to an amount, for every
\* input including zero wages and zero withholding.
C10_LedgerHasExactlyAllKeys ==
    (Returned /\ inv.result.kind = "Ok") =>
        /\ DOMAIN inv.result.ledger = Key
        /\ Cardinality(DOMAIN inv.result.ledger) = 17
        /\ \A k \in Key : inv.result.ledger[k] \in Int

C10_Witness ==
    /\ Returned
    /\ inv.result.kind = "Ok"
    /\ inv.input.w2_wages = ZERO
    /\ inv.input.fed_withholding = ZERO
    /\ DOMAIN inv.result.ledger = Key
    /\ inv.result.ledger["AmountOwed"] = ZERO

(***************************************************************************)
(* Properties of the completed ledger (checked under SpecSpine)            *)
(***************************************************************************)
Completed == Returned /\ inv.result.kind = "Ok"

L(k) == inv.result.ledger[k]

\* C11: in every completed ledger at most one of Refund and AmountOwed is
\* nonzero; if TotalTax > TotalPayments then AmountOwed is their difference
\* and Refund is 0, if TotalPayments > TotalTax then Refund is their
\* difference and AmountOwed is 0, and if they are equal both are 0.
C11_RefundXorOwed ==
    Completed =>
        /\ L("Refund") = ZERO \/ L("AmountOwed") = ZERO
        /\ L("TotalTax") > L("TotalPayments") =>
              /\ L("AmountOwed") = L("TotalTax") - L("TotalPayments")
              /\ L("Refund") = ZERO
        /\ L("TotalPayments") > L("TotalTax") =>
              /\ L("Refund") = L("TotalPayments") - L("TotalTax")
              /\ L("AmountOwed") = ZERO
        /\ L("TotalPayments") = L("TotalTax") =>
              /\ L("Refund") = ZERO
              /\ L("AmountOwed") = ZERO

C11_Witness ==
    /\ Completed
    /\ L("TotalTax") = from_dollars(3425)
    /\ L("TotalPayments") = from_dollars(10000)
    /\ L("Refund") = from_dollars(6575)
    /\ L("AmountOwed") = ZERO

\* C12: in every completed ledger TaxableIncome = max(AGI - Deductions, 0):
\* never negative, 0 whenever AGI <= Deductions, and otherwise exactly
\* AGI - Deductions in cents, before any rounding.
C12_TaxableIncomeClamped ==
    Completed =>
        /\ L("TaxableIncome") >= ZERO
        /\ L("AGI") <= L("Deductions") => L("TaxableIncome") = ZERO
        /\ L("AGI") > L("Deductions")
              => L("TaxableIncome") = L("AGI") - L("Deductions")

C12_Witness ==
    /\ Completed
    /\ rules = Rules2025
    /\ inv.input.filing_status = "Single"
    /\ L("AGI") = from_cents(1575049)
    /\ L("Deductions") = from_dollars(15750)
    /\ L("TaxableIncome") = from_cents(49)

StandardDeduction2025 ==
    CASE inv.input.filing_status \in {"Single", "MarriedFilingSeparately"} ->
            from_dollars(15750)
      [] inv.input.filing_status \in {"MarriedFilingJointly", "QualifyingSurvivingSpouse"} ->
            from_dollars(31500)
      [] inv.input.filing_status = "HeadOfHousehold" ->
            from_dollars(23625)

ZeroTaxOnZeroDollars ==
    compute_tax(collab, inv.input.tax_year, inv.input.filing_status, 0) = TaxOk(0)

\* C13: under Rules2025, when the wages do not exceed the standard deduction
\* of the filing status, the withholding w is non-negative and the bracket
\* lookup returns 0 tax for 0 dollars, the ledger has TaxableIncome = 0,
\* RegularTax = 0, TotalTax = 0, Refund = w and AmountOwed = 0; with wages 0
\* and withholding 0, TotalIncome, TaxableIncome, TotalTax, Refund and
\* AmountOwed are all 0.
C13_WagesBelowDeductionFullRefund ==
    (Completed /\ rules = Rules2025 /\ ZeroTaxOnZeroDollars
        /\ inv.input.w2_wages <= StandardDeduction2025
        /\ inv.input.fed_withholding >= ZERO) =>
        /\ L("TaxableIncome") = ZERO
        /\ L("RegularTax") = ZERO
        /\ L("TotalTax") = ZERO
        /\ L("Refund") = inv.input.fed_withholding
        /\ L("AmountOwed") = ZERO
        /\ (inv.input.w2_wages = ZERO /\ inv.input.fed_withholding = ZERO) =>
              /\ L("TotalIncome") = ZERO
              /\ L("Refund") = ZERO

C13_Witness ==
    /\ Completed
    /\ rules = Rules2025
    /\ inv.input.filing_status = "HeadOfHousehold"
    /\ inv.input.w2_wages = from_dollars(23625)
    /\ inv.input.fed_withholding = from_dollars(2000)
    /\ L("TaxableIncome") = ZERO
    /\ L("Refund") = from_dollars(2000)
    /\ L("AmountOwed") = ZERO

(***************************************************************************)
(* Properties of the Usd operations (checked under SpecUsd)                *)
(***************************************************************************)
Magnitude(x) == IF x < 0 THEN 0 - x ELSE x

\* C14: irs_round(x) is |x| rounded to the nearest multiple of 100 cents, a
\* remainder of exactly 50 rounding up in magnitude, with the sign of x
\* reapplied; hence irs_round(-x) = -irs_round(x), -150 cents gives -$2 and
\* -149 cents gives -$1.
C14_IrsRoundHalfAwayFromZero ==
    usd.op = "irs_round" =>
        LET a == Magnitude(usd.arg)
            m == Magnitude(usd.value)
        IN  /\ m % 100 = 0
            /\ m - a <= 50
            /\ a - m < 50
            /\ usd.value = (IF usd.arg < 0 THEN 0 - m ELSE m)
            /\ irs_round(0 - usd.arg) = 0 - usd.value
            /\ usd.arg = from_cents(-150) => usd.value = from_dollars(-2)
            /\ usd.arg = from_cents(-149) => usd.value = from_dollars(-1)

C14_Witness ==
    /\ usd.op = "irs_round"
    /\ usd.arg = from_cents(-150)
    /\ usd.value = from_dollars(-2)

\* C15: irs_round is idempotent: applying it to its own result, positive,
\* zero or negative, gives that result again.
C15_IrsRoundIdempotent ==
    (usd.op = "irs_round" /\ usd.argOp = "irs_round") => usd.value = usd.arg

C15_Witness ==
    /\ usd.op = "irs_round"
    /\ usd.argOp = "irs_round"
    /\ usd.origin = from_cents(-250)
    /\ usd.arg = from_dollars(-3)
    /\ usd.value = from_dollars(-3)

\* C16: round_up(x) is the smallest whole-dollar amount >= x: unchanged when
\* x is a whole-dollar amount, otherwise the next whole dollar; -150 cents
\* gives -$1 and -1 cent gives $0.
C16_RoundUpIsCeiling ==
    usd.op = "round_up" =>
        /\ usd.value % 100 = 0
        /\ usd.value >= usd.arg
        /\ usd.value - usd.arg < 100
        /\ usd.arg % 100 = 0 => usd.value = usd.arg
        /\ usd.arg = from_cents(-150) => usd.value = from_dollars(-1)
        /\ usd.arg = from_cents(-1) => usd.value = ZERO

C16_Witness ==
    /\ usd.op = "round_up"
    /\ usd.arg = from_cents(-150)
    /\ usd.value = from_dollars(-1)

\* C17: round_down(x) is the largest whole-dollar amount <= x: negative
\* non-whole amounts move away from zero (-150 cents gives -$2, -1 cent gives
\* -$1) and whole-dollar amounts are unchanged.
C17_RoundDownIsFloor ==
    usd.op = "round_down" =>
        /\ usd.value % 100 = 0
        /\ usd.value <= usd.arg
        /\ usd.arg - usd.value < 100
        /\ usd.arg % 100 = 0 => usd.value = usd.arg
        /\ usd.arg = from_cents(-150) => usd.value = from_dollars(-2)
        /\ usd.arg = from_cents(-1) => usd.value = from_dollars(-1)

C17_Witness ==
    /\ usd.op = "round_down"
    /\ usd.arg = from_cents(-1)
    /\ usd.value = from_dollars(-1)

IsDigit(ch) == \E d \in 0..9 : DigitChars[d + 1] = ch

DigitValue(ch) == CHOOSE d \in 0..9 : DigitChars[d + 1] = ch

\* the number a sequence of digit characters denotes
RECURSIVE Denotes(_)
Denotes(ds) ==
    IF Len(ds) = 0 THEN 0
    ELSE 10 * Denotes(SubSeq(ds, 1, Len(ds) - 1)) + DigitValue(ds[Len(ds)])

\* C18: a Usd of c cents is displayed as an optional leading '-' (present
\* exactly when c < 0), '$', |c| div 100 in decimal, '.', and |c| mod 100 as
\* exactly two digits; zero is $0.00, 5 cents $0.05, -1050 cents -$10.50.
C18_DisplayFormat ==
    usd.op = "display" =>
        LET t == usd.text
            c == usd.value
            body == IF Len(t) > 0 /\ t[1] = "-" THEN Tail(t) ELSE t
            n == Len(body)
            whole == SubSeq(body, 2, n - 3)
            frac == SubSeq(body, n - 1, n)
        IN  /\ Len(t) >= 5
            /\ (t[1] = "-") <=> (c < 0)
            /\ n >= 5
            /\ body[1] = "$"
            /\ body[n - 2] = "."
            /\ \A i \in 1..Len(whole) : IsDigit(whole[i])
            /\ Len(whole) > 1 => whole[1] # "0"
            /\ Denotes(whole) = Magnitude(c) \div 100
            /\ IsDigit(frac[1]) /\ IsDigit(frac[2])
            /\ Denotes(frac) = Magnitude(c) % 100
            /\ c = ZERO => t = <<"$", "0", ".", "0", "0">>
            /\ c = from_cents(5) => t = <<"$", "0", ".", "0", "5">>
            /\ c = from_cents(-1050) => t = <<"-", "$", "1", "0", ".", "5", "0">>

C18_Witness ==
    /\ usd.op = "display"
    /\ usd.value = from_cents(-1050)
    /\ usd.text = <<"-", "$", "1", "0", ".", "5", "0">>

(***************************************************************************)
(* Concurrent invocations (checked under SpecConc)                         *)
(***************************************************************************)
\* C19: when several compute_spine invocations run concurrently on one
\* shared rule set, under every interleaving each invocation returns exactly
\* what it would return when run alone on its own input, and no step
\* modifies the rule set.
C19_ConcurrentInvocationsIndependent ==
    /\ [](\A p \in Procs :
            invs[p].pc = "done"
                => invs[p].result = compute_spine(rules, collab, invs[p].input))
    /\ [][rules' = rules /\ collab' = collab]_vars

C19_Witness ==
    /\ invs[1].pc = "done"
    /\ invs[1].result.kind = "Ok"
    /\ invs[2].pc = "assemble"
    /\ invs[2].input.w2_wages # invs[1].input.w2_wages
    /\ invs[2].input.filing_status # invs[1].input.filing_status
    /\ invs[2].regular_tax # invs[1].regular_tax

(***************************************************************************)
(* Placeholder stages (checked under SpecSpine)                            *)
(***************************************************************************)
\* C20: in every completed ledger Adjustments, AdditionalTax,
\* NonRefundableCredits, RefundableCredits and EstimatedPayments are zero,
\* so TotalIncome = AGI = input wages, TotalTaxPreCredits =
\* TaxAfterNonRefundableCredits = TotalTax = RegularTax, and Withholding =
\* TotalPayments = input federal withholding.
C20_PlaceholdersAreZero ==
    Completed =>
        /\ \A k \in {"Adjustments", "AdditionalTax", "NonRefundableCredits",
                     "RefundableCredits", "EstimatedPayments"} : L(k) = ZERO
        /\ L("TotalIncome") = inv.input.w2_wages
        /\ L("AGI") = inv.input.w2_wages
        /\ L("TotalTaxPreCredits") = L("RegularTax")
        /\ L("TaxAfterNonRefundableCredits") = L("RegularTax")
        /\ L("TotalTax") = L("RegularTax")
        /\ L("Withholding") = inv.input.fed_withholding
        /\ L("TotalPayments") = inv.input.fed_withholding

C20_Witness ==
    /\ Completed
    /\ inv.input.w2_wages = from_dollars(50000)
    /\ inv.input.fed_withholding = from_dollars(-100)
    /\ L("AGI") = from_dollars(50000)
    /\ L("RegularTax") = from_dollars(3425)
    /\ L("TotalTax") = from_dollars(3425)
    /\ L("TotalPayments") = from_dollars(-100)
    /\ L("Adjustments") = ZERO

(***************************************************************************)
(* Claims about the lookup arguments, the deduction the spine uses, the    *)
(* scope of the deduction parameters and the outcomes of an invocation     *)
(***************************************************************************)
Looked == inv.lookups > 0

\* the whole dollars nearest to a non-negative amount, 50 cents going up
StatedWholeDollars(taxable) ==
    IF taxable % 100 >= 50 THEN (taxable \div 100) + 1 ELSE taxable \div 100

\* C21: compute_spine passes to the bracket lookup the input's tax year and
\* filing status together with irs_round(TaxableIncome) in whole dollars, a
\* non-negative integer with 50 cents or more rounded up, and records
\* RegularTax as exactly the returned whole-dollar tax converted to cents, a
\* multiple of 100 cents.
C21_LookupArgumentsAndRegularTax ==
    /\ Looked =>
          /\ inv.lookup_args.tax_year = inv.input.tax_year
          /\ inv.lookup_args.filing_status = inv.input.filing_status
          /\ inv.lookup_args.dollars >= 0
          /\ inv.taxable_income >= 0
          /\ inv.lookup_args.dollars = StatedWholeDollars(inv.taxable_income)
    /\ Completed =>
          LET returned == compute_tax(collab, inv.input.tax_year,
                                      inv.input.filing_status,
                                      StatedWholeDollars(L("TaxableIncome")))
          IN  /\ returned.ok
              /\ L("RegularTax") = returned.tax * 100
              /\ L("RegularTax") % 100 = 0

C21_Witness ==
    /\ Completed
    /\ rules = Rules2025
    /\ collab = "flat"
    /\ inv.input.filing_status = "Single"
    /\ inv.input.w2_wages = from_cents(3105050)
    /\ L("TaxableIncome") = from_cents(1530050)
    /\ inv.lookup_args.dollars = 15301
    /\ L("RegularTax") = from_dollars(1530)

\* the base amount of the rule set for a status, read from its figures
StatedTypical(r, status) ==
    CASE status \in {"Single", "MarriedFilingSeparately"} ->
            r.single_mfs_typical_standard_deduction
      [] status \in {"MarriedFilingJointly", "QualifyingSurvivingSpouse"} ->
            r.mfj_qss_typical_standard_deduction
      [] status = "HeadOfHousehold" ->
            r.hoh_typical_standard_deduction

C23_OutOfScopeParametersIgnored ==
    Called =>
        /\ params.filing_status # "MarriedFilingSeparately" =>
              \A b \in BOOLEAN :
                  standard_deduction(rules, [params EXCEPT !.spouse_itemizes = b])
                      = deduction
        /\ ~params.is_dependent =>
              \A e \in EarnedIncomes :
                  standard_deduction(rules, [params EXCEPT !.earned_income = e])
                      = deduction
        /\ params.filing_status \in {"Single", "HeadOfHousehold"} =>
              \A sp \in OptionFiler :
                  standard_deduction(rules, [params EXCEPT !.spouse = sp])
                      = deduction

C23_Witness ==
    /\ Called
    /\ rules = Rules2025
    /\ params.filing_status = "HeadOfHousehold"
    /\ params.spouse_itemizes
    /\ ~params.is_dependent
    /\ ~params.is_dual_status_alien
    /\ params.earned_income = from_dollars(40000)
    /\ params.spouse = Some(SENIOR_BLIND)
    /\ params.taxpayer = [is_65_or_older |-> TRUE, is_blind |-> FALSE]
    /\ deduction = from_dollars(25625)

Outcomes == {"Ok", "YearMismatch", "TaxComputeError"}

\* C24: every compute_spine invocation terminates with exactly one of three
\* outcomes (a ledger, YearMismatch or TaxComputeError) and invokes the
\* bracket lookup at most once: a failed lookup is not retried and no lookup
\* happens after an error has been decided.
C24_TerminatesWithOneOutcome ==
    /\ [](inv.lookups <= 1)
    /\ [](Returned =>
            /\ inv.result.kind \in Outcomes
            /\ (inv.result.kind = "Ok") <=> (DOMAIN inv.result.ledger = Key)
            /\ (inv.result.kind # "Ok") <=> (DOMAIN inv.result.ledger = {})
            /\ (inv.result.kind = "TaxComputeError") <=> (inv.result.source \in TaxErrors)
            /\ (inv.result.kind = "YearMismatch") => inv.lookups = 0)
    /\ [][inv'.lookups > inv.lookups =>
            (inv.lookups = 0 /\ inv.pc = "lookup" /\ inv.result.kind = "None")]_vars
    /\ [][inv.result.kind # "None" => (inv'.pc = "idle" /\ inv'.lookups = 0)]_vars
    /\ (inv.pc # "idle") ~> Returned

C24_Witness ==
    /\ Returned
    /\ collab = "failing"
    /\ ~YearsDiffer
    /\ inv.lookups = 1
    /\ inv.result.kind = "TaxComputeError"
    /\ inv.result.source = "TableUnavailable"

\* C25: for every input, negative withholding included, a completed ledger
\* has Refund >= 0, AmountOwed >= 0 and
\* Refund - AmountOwed = TotalPayments - TotalTax: nothing is created or
\* lost between the net and the refund/owed pair.
C25_NetIsConserved ==
    Completed =>
        /\ L("Refund") >= ZERO
        /\ L("AmountOwed") >= ZERO
        /\ L("Refund") - L("AmountOwed") = L("TotalPayments") - L("TotalTax")
        /\ L("TotalPayments") = inv.input.fed_withholding

C25_Witness ==
    /\ Completed
    /\ inv.input.fed_withholding = from_dollars(-100)
    /\ inv.input.w2_wages = from_dollars(10000)
    /\ rules = Rules2025
    /\ L("TotalTax") = ZERO
    /\ L("TotalPayments") = from_dollars(-100)
    /\ L("Refund") = ZERO
    /\ L("AmountOwed") = from_dollars(100)

\* C26: if the input's wages and withholding are non-negative, the rule
\* set's deduction is non-negative and the bracket lookup returns a
\* non-negative tax, then each of the seventeen amounts of the completed
\* ledger is non-negative.
C26_LedgerNonNegative ==
    (/\ Completed
     /\ inv.input.w2_wages >= ZERO
     /\ inv.input.fed_withholding >= ZERO
     /\ spine_deductions(rules, inv.input.filing_status) >= ZERO
     /\ LookupOutcome.ok /\ LookupOutcome.tax >= 0) =>
        \A k \in Key : L(k) >= ZERO

C26_Witness ==
    /\ Completed
    /\ rules = Rules2025
    /\ collab = "flat"
    /\ inv.input.filing_status = "HeadOfHousehold"
    /\ inv.input.w2_wages = from_dollars(50000)
    /\ inv.input.fed_withholding = from_dollars(10000)
    /\ L("TaxableIncome") = from_dollars(26375)
    /\ L("RegularTax") = from_dollars(2637)
    /\ L("Refund") = from_dollars(7363)
    /\ L("AmountOwed") = ZERO

\* the result of the call and the result for the same parameters with the
\* dependent flag the other way
AsDependent ==
    IF params.is_dependent THEN deduction
    ELSE standard_deduction(rules, [params EXCEPT !.is_dependent = TRUE])

AsNonDependent ==
    IF params.is_dependent
    THEN standard_deduction(rules, [params EXCEPT !.is_dependent = FALSE])
    ELSE deduction

\* C27: for the same status, filers, spouse, flags and earned income, and no
\* zero-override, the dependent standard deduction never exceeds the
\* non-dependent one, and the two are equal exactly when
\* max(earned_income + dependent addition, dependent minimum) >= the base for
\* the status.
C27_DependentAtMostNonDependent ==
    (Called /\ NoZeroOverride) =>
        /\ AsDependent <= AsNonDependent
        /\ (AsDependent = AsNonDependent) <=>
              (UsdMax(params.earned_income + rules.dependent_earned_income_addition,
                      rules.dependent_minimum_deduction) >= StatedBase)

C27_Witness ==
    /\ Called
    /\ NoZeroOverride
    /\ rules = Rules2025
    /\ params.is_dependent
    /\ params.filing_status = "MarriedFilingJointly"
    /\ params.earned_income = from_dollars(31050)
    /\ params.spouse = Some(SENIOR_BLIND)
    /\ params.taxpayer = FilerDefault
    /\ deduction = from_dollars(34700)
    /\ AsNonDependent = deduction

(***************************************************************************)
(* Claim about the two currency types                                      *)
(***************************************************************************)
\* C28: the two currency lineages agree on IRS whole-dollar rounding: for
\* every integer cent amount c, positive, zero or negative,
\* Usd::from_cents(c).irs_round().cents() equals
\* UsdAmount::from_cents(c).round_to_dollar().as_cents(), and both round a
\* 50-cent tie away from zero.
C28_LineagesAgreeOnRounding ==
    (/\ usd.op = "irs_round" /\ usd.argOp = "new"
     /\ amount.op = "as_cents") =>
        /\ usd.origin = from_cents(amount.origin)
        /\ cents(usd.value) = amount.cents
        /\ Magnitude(amount.origin) % 100 = 50 =>
              /\ Magnitude(amount.cents) = Magnitude(amount.origin) + 50
              /\ Magnitude(cents(usd.value)) = Magnitude(amount.origin) + 50

C28_Witness ==
    /\ usd.op = "irs_round"
    /\ usd.argOp = "new"
    /\ amount.op = "as_cents"
    /\ amount.origin = -250
    /\ usd.origin = from_cents(-250)
    /\ cents(usd.value) = -300
    /\ amount.dec = UsdAmount_from_dollars(-3)
    /\ amount.cents = -300

====
